---- MODULE Spec2Model ----
(***************************************************************************)
(* A model of the CRSF codec of crsf-rs: the packed RC channel bit-packer, *)
(* the payload capability (decode / encode over byte windows), the simple  *)
(* and the extended frame constructors, checksum validation of a frame and *)
(* the streaming parser.                                                   *)
(*                                                                         *)
(* Byte buffers are sequences of numbers in 0..255.  The source indexes    *)
(* buffers from 0; At and Put keep the source's indices.                   *)
(***************************************************************************)
EXTENDS Integers, Sequences, FiniteSets, TLC

VARIABLES
    pc,       \* position of the caller: which operation ran last
    val,      \* the payload value handed to the codec
    window,   \* the caller's byte window (decode input / encode output)
    args,     \* the other arguments of the call: sync byte, addresses
    res,      \* the result of the last codec call
    raw,      \* the local RawPacket of the last frame construction
    mut,      \* the single-byte change applied to the frame, if any
    stream,   \* the bytes the serial line delivers, in order
    fed,      \* how many bytes of stream have been pushed into the parser
    buffer,   \* the parser's pending bytes, oldest first
    base,     \* position in stream of the parser's oldest pending byte
    overflowed, \* whether a push has exceeded the parser's capacity
    log,      \* every outcome next() has returned, in order
    last      \* the outcome of the last next(), reset by a push

codecVars == <<pc, val, window, args, res, raw, mut>>

parserVars == <<stream, fed, buffer, base, overflowed, log, last>>

vars == <<codecVars, parserVars>>

(***************************************************************************)
(* Bounds of the model.                                                    *)
(***************************************************************************)
\* channel sample values are 0, 2^i and 2^i - 1 up to this many bits
SampleBits == 12

\* a frame byte is changed by XOR with a one-bit mask or a mask in 1..MaxMask
MaxMask == 4

\* length of the input stream handed to the streaming parser
MaxStream == 9

\* capacity of the streaming parser's buffer, in bytes
Capacity == 8

\* bytes the transport hands to the parser per read
ReadLen == 4

(***************************************************************************)
(* Machine arithmetic: u8 / u16 values, shifts and bitwise operators.      *)
(***************************************************************************)
Byte == 0..255

Pow2(n) == 2 ^ n

\* `x << n` on a u16: the bits shifted past bit 15 are dropped
Shl16(x, n) == (x * Pow2(n)) % 65536

\* `x >> n` on an unsigned value
Shr(x, n) == x \div Pow2(n)

\* `x as u8`: truncation to the low 8 bits
AsU8(x) == x % 256

RECURSIVE BitOr(_, _)
BitOr(a, b) ==
    IF a = 0 THEN b
    ELSE IF b = 0 THEN a
    ELSE (IF a % 2 = 1 \/ b % 2 = 1 THEN 1 ELSE 0) + 2 * BitOr(a \div 2, b \div 2)

RECURSIVE BitAnd(_, _)
BitAnd(a, b) ==
    IF a = 0 \/ b = 0 THEN 0
    ELSE (IF a % 2 = 1 /\ b % 2 = 1 THEN 1 ELSE 0) + 2 * BitAnd(a \div 2, b \div 2)

RECURSIVE BitXor(_, _)
BitXor(a, b) ==
    IF a = 0 THEN b
    ELSE IF b = 0 THEN a
    ELSE (IF a % 2 # b % 2 THEN 1 ELSE 0) + 2 * BitXor(a \div 2, b \div 2)

BitOr3(a, b, c) == BitOr(BitOr(a, b), c)

\* 0-based access to a buffer
At(s, i) == s[i + 1]

Put(s, i, b) == [s EXCEPT ![i + 1] = b]

Zeros(n) == [i \in 1..n |-> 0]

Fill(n, b) == [i \in 1..n |-> b]

\* buf[from .. to) of the source
Slice(s, from, to) == SubSeq(s, from + 1, to)

(***************************************************************************)
(* Channel bit-packer (packets/rc_channels_packed.rs).                     *)
(***************************************************************************)
RcLEN == 22

MASK_11BIT == 2047

\* raw_decode: data is a window of exactly RcLEN bytes, widened to u16
RcRawDecode(data) ==
    LET d(i) == At(data, i)
        m(x) == BitAnd(MASK_11BIT, x)
    IN << m(BitOr(d(0), Shl16(d(1), 8))),
          m(BitOr(Shr(d(1), 3), Shl16(d(2), 5))),
          m(BitOr3(Shr(d(2), 6), Shl16(d(3), 2), Shl16(d(4), 10))),
          m(BitOr(Shr(d(4), 1), Shl16(d(5), 7))),
          m(BitOr(Shr(d(5), 4), Shl16(d(6), 4))),
          m(BitOr3(Shr(d(6), 7), Shl16(d(7), 1), Shl16(d(8), 9))),
          m(BitOr(Shr(d(8), 2), Shl16(d(9), 6))),
          m(BitOr(Shr(d(9), 5), Shl16(d(10), 3))),
          m(BitOr(d(11), Shl16(d(12), 8))),
          m(BitOr(Shr(d(12), 3), Shl16(d(13), 5))),
          m(BitOr3(Shr(d(13), 6), Shl16(d(14), 2), Shl16(d(15), 10))),
          m(BitOr(Shr(d(15), 1), Shl16(d(16), 7))),
          m(BitOr(Shr(d(16), 4), Shl16(d(17), 4))),
          m(BitOr3(Shr(d(17), 7), Shl16(d(18), 1), Shl16(d(19), 9))),
          m(BitOr(Shr(d(19), 2), Shl16(d(20), 6))),
          m(BitOr(Shr(d(20), 5), Shl16(d(21), 3))) >>

\* raw_encode under the bug "the neighbour's bits are not OR-ed into the shared byte"
RcRawEncodeNoShare(ch) ==
    LET c(i) == At(ch, i)
    IN << AsU8(c(0)),
          AsU8(Shr(c(0), 8)),
          AsU8(Shr(c(1), 5)),
          AsU8(Shr(c(2), 2)),
          AsU8(Shr(c(2), 10)),
          AsU8(Shr(c(3), 7)),
          AsU8(Shr(c(4), 4)),
          AsU8(Shr(c(5), 1)),
          AsU8(Shr(c(5), 9)),
          AsU8(Shr(c(6), 6)),
          AsU8(Shr(c(7), 3)),
          AsU8(c(8)),
          AsU8(Shr(c(8), 8)),
          AsU8(Shr(c(9), 5)),
          AsU8(Shr(c(10), 2)),
          AsU8(Shr(c(10), 10)),
          AsU8(Shr(c(11), 7)),
          AsU8(Shr(c(12), 4)),
          AsU8(Shr(c(13), 1)),
          AsU8(Shr(c(13), 9)),
          AsU8(Shr(c(14), 6)),
          AsU8(Shr(c(15), 3)) >>

\* raw_encode: the 22 bytes written for the 16 u16 channel values ch
RcRawEncode(ch) ==
    LET c(i) == At(ch, i)
    IN << AsU8(c(0)),
          AsU8(BitOr(Shr(c(0), 8), Shl16(c(1), 3))),
          AsU8(BitOr(Shr(c(1), 5), Shl16(c(2), 6))),
          AsU8(Shr(c(2), 2)),
          AsU8(BitOr(Shr(c(2), 10), Shl16(c(3), 1))),
          AsU8(BitOr(Shr(c(3), 7), Shl16(c(4), 4))),
          AsU8(BitOr(Shr(c(4), 4), Shl16(c(5), 7))),
          AsU8(Shr(c(5), 1)),
          AsU8(BitOr(Shr(c(5), 9), Shl16(c(6), 2))),
          AsU8(BitOr(Shr(c(6), 6), Shl16(c(7), 5))),
          AsU8(Shr(c(7), 3)),
          AsU8(c(8)),
          AsU8(BitOr(Shr(c(8), 8), Shl16(c(9), 3))),
          AsU8(BitOr(Shr(c(9), 5), Shl16(c(10), 6))),
          AsU8(Shr(c(10), 2)),
          AsU8(BitOr(Shr(c(10), 10), Shl16(c(11), 1))),
          AsU8(BitOr(Shr(c(11), 7), Shl16(c(12), 4))),
          AsU8(BitOr(Shr(c(12), 4), Shl16(c(13), 7))),
          AsU8(Shr(c(13), 1)),
          AsU8(BitOr(Shr(c(13), 9), Shl16(c(14), 2))),
          AsU8(BitOr(Shr(c(14), 6), Shl16(c(15), 5))),
          AsU8(Shr(c(15), 3)) >>

(***************************************************************************)
(* Protocol constants and enumerations (crate root, packet/typ.rs,         *)
(* packet/address.rs).                                                     *)
(***************************************************************************)
CRSF_MAX_LEN == 64

CRSF_SYNC_BYTE == 200

SimpleKinds == {"LinkStatistics", "RcChannelsPacked"}

ExtendedKinds == {"DevicePing", "DeviceInfo", "ParameterRead"}

\* "Oversize" stands for an implementor of AnyPayload outside the crate whose
\* encode fails: its LEN is larger than any payload window of a RawPacket
Kinds == SimpleKinds \cup ExtendedKinds \cup {"Oversize"}

\* PacketType as u8
PacketType(kind) ==
    CASE kind = "LinkStatistics"   -> 20
      [] kind = "RcChannelsPacked" -> 22
      [] kind = "DevicePing"       -> 40
      [] kind = "DeviceInfo"       -> 41
      [] kind = "ParameterRead"    -> 44
      [] kind = "Oversize"         -> 127

\* PacketAddress as u8: Broadcast, FlightController, Handset, Receiver, Transmitter
PacketAddress == {0, 200, 234, 236, 238}

LinkStatisticsLEN == 10

DevicePingLEN == 0

DeviceInfoLEN == 58

DEVICE_NAME_MAX_LEN == 44

ParameterReadLEN == 2

\* the smallest LEN that the payload window of no RawPacket can hold
OversizeLEN == CRSF_MAX_LEN - 2

\* AnyPayload::LEN
LEN(kind) ==
    CASE kind = "LinkStatistics"   -> LinkStatisticsLEN
      [] kind = "RcChannelsPacked" -> RcLEN
      [] kind = "DevicePing"       -> DevicePingLEN
      [] kind = "DeviceInfo"       -> DeviceInfoLEN
      [] kind = "ParameterRead"    -> ParameterReadLEN
      [] kind = "Oversize"         -> OversizeLEN

(***************************************************************************)
(* to_array: a window's first N bytes as an array, None when it is shorter *)
(***************************************************************************)
NoArray == <<"None">>

ref_array_start(buf, n) == IF Len(buf) >= n THEN SubSeq(buf, 1, n) ELSE NoArray

(***************************************************************************)
(* core::str::from_utf8: whether the bytes are well-formed UTF-8.          *)
(***************************************************************************)
IsCont(b) == b >= 128 /\ b <= 191

RECURSIVE IsUtf8(_)
IsUtf8(s) ==
    IF s = <<>> THEN TRUE
    ELSE LET b == s[1]
             n == Len(s)
         IN IF b < 128 THEN IsUtf8(Tail(s))
            ELSE IF b >= 194 /\ b <= 223
                 THEN n >= 2 /\ IsCont(s[2]) /\ IsUtf8(SubSeq(s, 3, n))
            ELSE IF b >= 224 /\ b <= 239
                 THEN /\ n >= 3 /\ IsCont(s[2]) /\ IsCont(s[3])
                      /\ (b = 224 => s[2] >= 160)
                      /\ (b = 237 => s[2] <= 159)
                      /\ IsUtf8(SubSeq(s, 4, n))
            ELSE IF b >= 240 /\ b <= 244
                 THEN /\ n >= 4 /\ IsCont(s[2]) /\ IsCont(s[3]) /\ IsCont(s[4])
                      /\ (b = 240 => s[2] >= 144)
                      /\ (b = 244 => s[2] <= 143)
                      /\ IsUtf8(SubSeq(s, 5, n))
            ELSE FALSE

(***************************************************************************)
(* Payload values and the raw decoders / encoders of each payload module.  *)
(* A decoder returns [status, value]; status "Panic" is a Rust panic       *)
(* (index out of bounds, unwrap of an Err).                                *)
(***************************************************************************)
NoValue == [kind |-> "None"]

Ok(v) == [status |-> "Ok", value |-> v]

Panic == [status |-> "Panic", value |-> NoValue]

Err(e) == [status |-> e, value |-> NoValue]

\* device_info::raw_decode, the loop over the name field: name_bytes is the
\* empty slice `&mut []`, so the store name_bytes[i] is out of bounds
RECURSIVE DeviceInfoNameLoop(_, _, _)
DeviceInfoNameLoop(data, i, name_bytes) ==
    IF i >= DEVICE_NAME_MAX_LEN THEN [panic |-> FALSE, name_bytes |-> name_bytes]
    ELSE IF At(data, i) = 0 THEN [panic |-> FALSE, name_bytes |-> name_bytes]
    ELSE IF i >= Len(name_bytes) THEN [panic |-> TRUE, name_bytes |-> name_bytes]
    ELSE DeviceInfoNameLoop(data, i + 1, Put(name_bytes, i, At(data, i)))

DeviceInfoRawDecode(data) ==
    LET loop == DeviceInfoNameLoop(data, 0, <<>>)
    IN IF loop.panic THEN Panic
       ELSE IF ~IsUtf8(loop.name_bytes) THEN Panic
       ELSE Ok([kind |-> "DeviceInfo",
                display_name |-> loop.name_bytes,
                serial_number |-> 0,
                hardware_version |-> 0,
                software_version |-> 0,
                parameter_count |-> 0,
                parameter_protocol_version |-> 0])

\* device_info::raw_encode has an empty body: data is left as it was
DeviceInfoRawEncode(packet, data) == data

ParameterReadRawDecode(data) ==
    Ok([kind |-> "ParameterRead", field |-> At(data, 0), chunk |-> At(data, 1)])

ParameterReadRawEncode(packet, data) ==
    Put(Put(data, 0, packet.field), 1, packet.chunk)

\* link_statistics: ten one-byte fields copied in order
LinkStatisticsRawDecode(data) == Ok([kind |-> "LinkStatistics", fields |-> data])

LinkStatisticsRawEncode(packet, data) == packet.fields

\* device_ping: no fields
DevicePingRawDecode(data) == Ok([kind |-> "DevicePing"])

DevicePingRawEncode(packet, data) == data

\* $module::raw_decode on an array of exactly LEN bytes
RawDecode(kind, data) ==
    CASE kind = "LinkStatistics"   -> LinkStatisticsRawDecode(data)
      [] kind = "RcChannelsPacked" -> Ok([kind |-> kind, ch |-> RcRawDecode(data)])
      [] kind = "DevicePing"       -> DevicePingRawDecode(data)
      [] kind = "DeviceInfo"       -> DeviceInfoRawDecode(data)
      [] kind = "ParameterRead"    -> ParameterReadRawDecode(data)
      [] kind = "Oversize"         -> Ok([kind |-> kind])

\* $module::raw_encode into an array of exactly LEN bytes
RawEncode(v, data) ==
    CASE v.kind = "LinkStatistics"   -> LinkStatisticsRawEncode(v, data)
      [] v.kind = "RcChannelsPacked" -> RcRawEncode(v.ch)
      [] v.kind = "DevicePing"       -> DevicePingRawEncode(v, data)
      [] v.kind = "DeviceInfo"       -> DeviceInfoRawEncode(v, data)
      [] v.kind = "ParameterRead"    -> ParameterReadRawEncode(v, data)
      [] v.kind = "Oversize"         -> data

(***************************************************************************)
(* AnyPayload::decode / encode (impl_any_payload, and the hand-written     *)
(* impl of packets/rc_channels_packed.rs, which has the same shape).       *)
(***************************************************************************)
\* decode under the bug "the window's length is not checked": the raw decoder
\* indexes past the end of a short window
DecodeUnchecked(kind, buf) ==
    IF Len(buf) < LEN(kind) THEN Panic ELSE RawDecode(kind, SubSeq(buf, 1, LEN(kind)))

Decode(kind, buf) ==
    LET data == ref_array_start(buf, LEN(kind))
    IN IF data = NoArray THEN Err("BufferError") ELSE RawDecode(kind, data)

\* encode returns [status, buf]: buf is the caller's window after the call
Encode(v, buf) ==
    LET data == ref_array_start(buf, LEN(v.kind))
    IN IF data = NoArray
       THEN [status |-> "BufferError", buf |-> buf]
       ELSE [status |-> "Ok",
             buf |-> RawEncode(v, data) \o SubSeq(buf, LEN(v.kind) + 1, Len(buf))]

(***************************************************************************)
(* Crc8 (crc8.rs): table-driven CRC-8 with polynomial 0xD5, initial value  *)
(* 0, no reflection, no final XOR.                                         *)
(***************************************************************************)
CRC8_POLY == 213

RECURSIVE Crc8Bits(_, _)
Crc8Bits(x, n) ==
    IF n = 0 THEN x
    ELSE Crc8Bits(IF x >= 128 THEN BitXor((x * 2) % 256, CRC8_POLY) ELSE (x * 2) % 256,
                  n - 1)

Crc8Table == [x \in Byte |-> Crc8Bits(x, 8)]

\* Crc8::compute over bytes, from the accumulator crc: the table step byte by
\* byte, left to right.  A run of bytes is split in two, and the accumulator
\* after the first half is evaluated before the second half starts, to bound
\* the depth of the evaluation.
RECURSIVE Crc8Compute(_, _)
Crc8Compute(crc, bytes) ==
    IF bytes = <<>> THEN crc
    ELSE IF Len(bytes) = 1 THEN Crc8Table[BitXor(crc, bytes[1])]
    ELSE LET h   == Len(bytes) \div 2
             mid == Crc8Compute(crc, SubSeq(bytes, 1, h))
         IN IF mid \in Byte
            THEN Crc8Compute(mid, SubSeq(bytes, h + 1, Len(bytes)))
            ELSE mid

\* Crc8::new() then compute(bytes) then get_checksum()
Crc8(bytes) == Crc8Compute(0, bytes)

(***************************************************************************)
(* Frame construction (packet/payload/mod.rs; packets/mod.rs is the same   *)
(* code for the simple framing).  A constructor returns                    *)
(*   status : "Ok" or the error of the payload's encode,                   *)
(*   local  : the function's local RawPacket when it returned,             *)
(*   frame  : the RawPacket handed to the caller, NoFrame on an error.     *)
(***************************************************************************)
NoFrame == [buf |-> <<>>, len |-> 0]

\* raw.buf.get_mut(from..): the tail of the buffer, None past its end
TailFrom(buf, from) == IF from <= Len(buf) THEN Slice(buf, from, Len(buf)) ELSE NoArray

\* the constructor's steps after a successful encode; hdr is the header
\* written at 0.., off the payload's offset
FinishFrame(buf, hdr, off, len) ==
    LET b1  == [i \in 1..Len(buf) |-> IF i <= Len(hdr) THEN hdr[i] ELSE buf[i]]
        crc == IF off + len <= Len(b1) THEN Crc8(Slice(b1, 2, off + len)) ELSE 0
        b2  == IF off + len < Len(b1) THEN Put(b1, off + len, crc) ELSE b1
    IN [buf |-> b2, len |-> off + 1 + len]

\* Payload::to_raw_packet_with_sync under the bug "header written before encode"
PayloadToRawPacketWithSyncHeaderFirst(v, sync_byte) ==
    LET len  == LEN(v.kind)
        hdr  == <<sync_byte, AsU8(2 + AsU8(len)), PacketType(v.kind)>>
        raw0 == [buf |-> hdr \o Zeros(CRSF_MAX_LEN - 3), len |-> 4 + len]
        enc  == Encode(v, TailFrom(raw0.buf, 3))
    IN IF enc.status # "Ok"
       THEN [status |-> enc.status, local |-> raw0, frame |-> NoFrame]
       ELSE LET r == FinishFrame(SubSeq(raw0.buf, 1, 3) \o enc.buf, hdr, 3, len)
            IN [status |-> "Ok", local |-> r, frame |-> r]

\* Payload::to_raw_packet_with_sync under the bug "extended header overhead used"
PayloadToRawPacketWithSyncLen4(v, sync_byte) ==
    LET len  == LEN(v.kind)
        raw0 == [buf |-> Zeros(CRSF_MAX_LEN), len |-> 4 + len]
        enc  == Encode(v, TailFrom(raw0.buf, 3))
    IN IF enc.status # "Ok"
       THEN [status |-> enc.status, local |-> raw0, frame |-> NoFrame]
       ELSE LET hdr == <<sync_byte, AsU8(4 + AsU8(len)), PacketType(v.kind)>>
                r   == FinishFrame(SubSeq(raw0.buf, 1, 3) \o enc.buf, hdr, 3, len)
            IN [status |-> "Ok", local |-> r, frame |-> r]

\* Payload::to_raw_packet_with_sync
PayloadToRawPacketWithSync(v, sync_byte) ==
    LET len  == LEN(v.kind)
        raw0 == [buf |-> Zeros(CRSF_MAX_LEN), len |-> 4 + len]
        payload_buffer == TailFrom(raw0.buf, 3)
        enc  == Encode(v, payload_buffer)
    IN IF enc.status # "Ok"
       THEN [status |-> enc.status, local |-> raw0, frame |-> NoFrame]
       ELSE LET hdr == <<sync_byte, AsU8(2 + AsU8(len)), PacketType(v.kind)>>
                r   == FinishFrame(SubSeq(raw0.buf, 1, 3) \o enc.buf, hdr, 3, len)
            IN [status |-> "Ok", local |-> r, frame |-> r]

\* ExtendedPayload::to_raw_packet_with_sync under the bug "checksum from the
\* destination address on": the type byte is left out of the covered range
ExtendedToRawPacketWithSyncCrcFrom3(v, sync_byte, dst, src) ==
    LET len  == LEN(v.kind)
        raw0 == [buf |-> Zeros(CRSF_MAX_LEN), len |-> 6 + len]
        enc  == Encode(v, TailFrom(raw0.buf, 5))
    IN IF enc.status # "Ok"
       THEN [status |-> enc.status, local |-> raw0, frame |-> NoFrame]
       ELSE LET hdr == <<sync_byte, AsU8(4 + AsU8(len)), PacketType(v.kind), dst, src>>
                r   == FinishFrame(SubSeq(raw0.buf, 1, 5) \o enc.buf, hdr, 5, len)
                b   == Put(r.buf, 5 + len, Crc8(Slice(r.buf, 3, 5 + len)))
            IN [status |-> "Ok", local |-> [r EXCEPT !.buf = b],
                frame |-> [r EXCEPT !.buf = b]]

\* ExtendedPayload::to_raw_packet_with_sync under the bug "checksum computed
\* before the payload is encoded": it covers the zeroed payload area
ExtendedToRawPacketWithSyncCrcFirst(v, sync_byte, dst, src) ==
    LET len  == LEN(v.kind)
        raw0 == [buf |-> Zeros(CRSF_MAX_LEN), len |-> 6 + len]
        enc  == Encode(v, TailFrom(raw0.buf, 5))
    IN IF enc.status # "Ok"
       THEN [status |-> enc.status, local |-> raw0, frame |-> NoFrame]
       ELSE LET hdr == <<sync_byte, AsU8(4 + AsU8(len)), PacketType(v.kind), dst, src>>
                r0  == FinishFrame(raw0.buf, hdr, 5, len)
                b   == [i \in 1..CRSF_MAX_LEN |->
                          IF i > 5 /\ i <= 5 + len THEN enc.buf[i - 5] ELSE r0.buf[i]]
            IN [status |-> "Ok", local |-> [r0 EXCEPT !.buf = b],
                frame |-> [r0 EXCEPT !.buf = b]]

\* ExtendedPayload::to_raw_packet_with_sync
ExtendedToRawPacketWithSync(v, sync_byte, dst, src) ==
    LET len  == LEN(v.kind)
        raw0 == [buf |-> Zeros(CRSF_MAX_LEN), len |-> 6 + len]
        payload_buffer == TailFrom(raw0.buf, 5)
        enc  == Encode(v, payload_buffer)
    IN IF enc.status # "Ok"
       THEN [status |-> enc.status, local |-> raw0, frame |-> NoFrame]
       ELSE LET hdr == <<sync_byte, AsU8(4 + AsU8(len)), PacketType(v.kind), dst, src>>
                r   == FinishFrame(SubSeq(raw0.buf, 1, 5) \o enc.buf, hdr, 5, len)
            IN [status |-> "Ok", local |-> r, frame |-> r]

\* RawPacket::as_slice: the frame's bytes, buf[..len]
AsSlice(r) == SubSeq(r.buf, 1, IF r.len < CRSF_MAX_LEN THEN r.len ELSE CRSF_MAX_LEN)

\* RawPacket::payload: the bytes between the type byte and the checksum
\* of a simple frame
PayloadOf(r) == Slice(r.buf, 3, r.len - 1)

(***************************************************************************)
(* Checksum validation of a candidate frame that starts at buf[0]: the     *)
(* length byte gives the candidate's extent, the checksum is recomputed    *)
(* over type .. end of payload and compared with the trailing byte.        *)
(***************************************************************************)
CheckFrame(buf) ==
    IF Len(buf) < 2 THEN "Incomplete"
    ELSE LET l == At(buf, 1)
         IN IF l < 2 \/ 2 + l > CRSF_MAX_LEN THEN "InvalidLength"
            ELSE IF Len(buf) < 2 + l THEN "Incomplete"
            ELSE IF Crc8(Slice(buf, 2, l + 1)) = At(buf, l + 1) THEN "Ok"
            ELSE "ChecksumMismatch"

(***************************************************************************)
(* Streaming parser: push(bytes) and next() over a bounded buffer.         *)
(***************************************************************************)
NoOutcome == [kind |-> "Pending", pos |-> 0, len |-> 0]

ParserIdle ==
    /\ stream = <<>>
    /\ fed = 0
    /\ buffer = <<>>
    /\ base = 0
    /\ overflowed = FALSE
    /\ log = <<>>
    /\ last = NoOutcome

\* the payload variant a type byte selects
KindOfType(t) ==
    IF \E k \in SimpleKinds \cup ExtendedKinds : PacketType(k) = t
    THEN CHOOSE k \in SimpleKinds \cup ExtendedKinds : PacketType(k) = t
    ELSE "Unknown"

\* dispatch of a checksum-valid frame to its payload's decode
DecodeFrame(frame) ==
    LET kind == KindOfType(At(frame, 2))
        off  == IF kind \in ExtendedKinds THEN 5 ELSE 3
    IN IF kind = "Unknown" THEN "UnknownPacketType"
       ELSE IF off > Len(frame) - 1 THEN "BufferError"
       ELSE Decode(kind, Slice(frame, off, Len(frame) - 1)).status

\* seeking-sync: the number of leading bytes that are not the sync byte
NoiseLen(buf) ==
    IF \E i \in 1..Len(buf) : buf[i] = CRSF_SYNC_BYTE
    THEN (CHOOSE i \in 1..Len(buf) :
            /\ buf[i] = CRSF_SYNC_BYTE
            /\ \A j \in 1..(i - 1) : buf[j] # CRSF_SYNC_BYTE) - 1
    ELSE Len(buf)

\* one call of next() under the bug "the whole candidate is discarded on a
\* checksum mismatch"
ParserNextDropCandidate(buf, at) ==
    LET n   == NoiseLen(buf)
        b   == SubSeq(buf, n + 1, Len(buf))
        pos == at + n
        c   == CheckFrame(b)
        l   == IF Len(b) >= 2 THEN 2 + At(b, 1) ELSE 0
    IN IF c = "Incomplete"
       THEN [buffer |-> b, base |-> pos, out |-> [kind |-> "None", pos |-> pos, len |-> 0]]
       ELSE IF c = "InvalidLength"
       THEN [buffer |-> Tail(b), base |-> pos + 1,
             out |-> [kind |-> c, pos |-> pos, len |-> 1]]
       ELSE IF c = "ChecksumMismatch"
       THEN [buffer |-> SubSeq(b, l + 1, Len(b)), base |-> pos + l,
             out |-> [kind |-> c, pos |-> pos, len |-> l]]
       ELSE [buffer |-> SubSeq(b, l + 1, Len(b)), base |-> pos + l,
             out |-> [kind |-> "Frame", pos |-> pos, len |-> l,
                      type |-> At(b, 2), result |-> DecodeFrame(SubSeq(b, 1, l))]]

\* one call of next(): buf is the pending bytes, at the stream position of
\* buf[0].  Returns the pending bytes and position after the call and the one
\* outcome: "None" (no frame ready), a frame, or a per-frame error.
ParserNext(buf, at) ==
    LET n   == NoiseLen(buf)
        b   == SubSeq(buf, n + 1, Len(buf))
        pos == at + n
        c   == CheckFrame(b)
        l   == IF Len(b) >= 2 THEN 2 + At(b, 1) ELSE 0
    IN IF c = "Incomplete"
       THEN [buffer |-> b, base |-> pos, out |-> [kind |-> "None", pos |-> pos, len |-> 0]]
       ELSE IF c \in {"InvalidLength", "ChecksumMismatch"}
       THEN [buffer |-> Tail(b), base |-> pos + 1,
             out |-> [kind |-> c, pos |-> pos, len |-> l]]
       ELSE [buffer |-> SubSeq(b, l + 1, Len(b)), base |-> pos + l,
             out |-> [kind |-> "Frame", pos |-> pos, len |-> l,
                      type |-> At(b, 2), result |-> DecodeFrame(SubSeq(b, 1, l))]]

\* push(bytes): the bytes are appended; past the capacity the oldest pending
\* bytes are dropped and the overflow is signalled
ParserPush(buf, at, bytes) ==
    LET all  == buf \o bytes
        drop == IF Len(all) > Capacity THEN Len(all) - Capacity ELSE 0
    IN [buffer |-> SubSeq(all, drop + 1, Len(all)), base |-> at + drop,
        overflow |-> drop > 0]

(***************************************************************************)
(* Inputs.                                                                 *)
(***************************************************************************)
NoMut == [pos |-> -1, old |-> 0, new |-> 0]

NoArgs == [sync |-> 0, dst |-> 0, src |-> 0]

NoRes == [status |-> "None"]

U16 == 0..65535

\* 0, the powers of two, the all-ones values and the largest u16
ChannelSamples ==
    {v \in ({0, 65535} \cup {Pow2(i) : i \in 0..(SampleBits - 1)}
                        \cup {Pow2(i) - 1 : i \in 1..SampleBits}) : v \in U16}

\* the channel values of the crate's test rc_channels_packed_encode_decode
TestChannels ==
    <<983, 992, 174, 992, 191, 191, 191, 191, 997, 997, 997, 997, 0, 0, 1811, 1811>>

\* 16 channels: bg everywhere but a in slot k and b in the next slot
ChannelsWith(bg, k, a, b) ==
    [i \in 1..16 |-> IF i = k + 1 THEN a
                     ELSE IF i = ((k + 1) % 16) + 1 THEN b
                     ELSE bg]

RcValue(ch) == [kind |-> "RcChannelsPacked", ch |-> ch]

PackValues ==
    {RcValue(TestChannels)} \cup
    {RcValue(ChannelsWith(bg, k, a, b)) :
        bg \in {0, MASK_11BIT}, k \in 0..15, a \in ChannelSamples, b \in ChannelSamples}

InRange(ch) == \A i \in 1..16 : ch[i] <= MASK_11BIT

DeviceInfoValue(name, n) ==
    [kind |-> "DeviceInfo", display_name |-> name, serial_number |-> n,
     hardware_version |-> 2 * n, software_version |-> 3 * n,
     parameter_count |-> (4 * n) % 256, parameter_protocol_version |-> (5 * n) % 256]

PayloadValues ==
    {RcValue(TestChannels), RcValue(Fill(16, 0)), RcValue(Fill(16, MASK_11BIT))}
    \cup {[kind |-> "LinkStatistics", fields |-> f] :
            f \in {Zeros(10), Fill(10, 255), [i \in 1..10 |-> 16 * i + 1]}}
    \cup {[kind |-> "DevicePing"]}
    \cup {DeviceInfoValue(name, n) : name \in {<<>>, <<84, 88>>}, n \in {0, 1}}
    \cup {[kind |-> "ParameterRead", field |-> f, chunk |-> c] :
            f \in {0, 1, 255}, c \in {0, 1, 255}}
    \cup {[kind |-> "Oversize"]}

Syncs == {CRSF_SYNC_BYTE, 238}

Masks == {1, 128, 255} \cup 1..MaxMask

\* window lengths around the fixed length of a payload
WindowLens(kind) == {n \in {0, 1, LEN(kind) - 1, LEN(kind), LEN(kind) + 1} : n >= 0}

\* untrusted window contents: a first byte, then a filler
Windows(kind) ==
    {[i \in 1..n |-> IF i = 1 THEN first ELSE fill] :
        n \in WindowLens(kind), first \in {0, 65, 195, 255}, fill \in {0, 65, 255}}

\* the bytes of the model's streams: the sync byte, two lengths, and zero (a
\* type byte whose checksum is zero)
StreamBytes == {CRSF_SYNC_BYTE, 2, 5, 0}

\* the streams start at a sync byte; noise before a sync byte arises after
\* every discarded sync byte
Streams == {<<CRSF_SYNC_BYTE>> \o t : t \in [1..(MaxStream - 1) -> StreamBytes]}

(***************************************************************************)
(* Operations of a caller.                                                 *)
(***************************************************************************)
\* raw_encode of the channels into a 22-byte array
RcEncodeRaw ==
    /\ pc = "start"
    /\ val.kind = "RcChannelsPacked"
    /\ window' = RcRawEncode(val.ch)
    /\ pc' = "raw_encoded"
    /\ UNCHANGED <<val, args, res, raw, mut>>
    /\ UNCHANGED parserVars

\* raw_decode of the 22-byte array
RcDecodeRaw ==
    /\ pc = "raw_encoded"
    /\ res' = Ok(RcValue(RcRawDecode(window)))
    /\ pc' = "raw_decoded"
    /\ UNCHANGED <<val, window, args, raw, mut>>
    /\ UNCHANGED parserVars

\* payload.encode(window)
EncodeWindow ==
    /\ pc = "start"
    /\ \E n \in WindowLens(val.kind), fill \in {0, 255} :
          /\ window' = Fill(n, fill)
          /\ res' = Encode(val, window')
    /\ pc' = "encoded"
    /\ UNCHANGED <<val, args, raw, mut>>
    /\ UNCHANGED parserVars

\* T::decode of the window a successful encode wrote
DecodeEncoded ==
    /\ pc = "encoded"
    /\ res.status = "Ok"
    /\ res' = Decode(val.kind, res.buf)
    /\ pc' = "decoded"
    /\ UNCHANGED <<val, window, args, raw, mut>>
    /\ UNCHANGED parserVars

\* T::decode of an untrusted window
DecodeWindow ==
    /\ pc = "start"
    /\ \E w \in Windows(val.kind) :
          /\ window' = w
          /\ res' = Decode(val.kind, w)
    /\ pc' = "decoded_window"
    /\ UNCHANGED <<val, args, raw, mut>>
    /\ UNCHANGED parserVars

\* payload.to_raw_packet() / to_raw_packet_with_sync(sync)
ToRawPacket ==
    /\ pc = "start"
    /\ val.kind \in SimpleKinds \cup {"Oversize"}
    /\ \E sync \in Syncs :
          LET r == PayloadToRawPacketWithSync(val, sync)
          IN /\ args' = [sync |-> sync, dst |-> 0, src |-> 0]
             /\ raw' = r.local
             /\ res' = [status |-> r.status, frame |-> r.frame]
    /\ pc' = "framed"
    /\ UNCHANGED <<val, window, mut>>
    /\ UNCHANGED parserVars

\* payload.to_raw_packet(dst, src) / to_raw_packet_with_sync(sync, dst, src)
ExtToRawPacket ==
    /\ pc = "start"
    /\ val.kind \in ExtendedKinds \cup {"Oversize"}
    /\ \E sync \in Syncs, dst \in PacketAddress, src \in {200, 238} :
          LET r == ExtendedToRawPacketWithSync(val, sync, dst, src)
          IN /\ args' = [sync |-> sync, dst |-> dst, src |-> src]
             /\ raw' = r.local
             /\ res' = [status |-> r.status, frame |-> r.frame]
    /\ pc' = "framed"
    /\ UNCHANGED <<val, window, mut>>
    /\ UNCHANGED parserVars

\* T::decode(raw.payload()) of a constructed simple frame
DecodePayload ==
    /\ pc = "framed"
    /\ res.status = "Ok"
    /\ val.kind \in SimpleKinds
    /\ window' = PayloadOf(res.frame)
    /\ res' = Decode(val.kind, window')
    /\ pc' = "frame_decoded"
    /\ UNCHANGED <<val, args, raw, mut>>
    /\ UNCHANGED parserVars

\* one byte of the frame is changed to a different value
MutateByte ==
    /\ pc = "framed"
    /\ res.status = "Ok"
    /\ \E pos \in 0..(res.frame.len - 1), mask \in Masks :
          LET before == At(res.frame.buf, pos)
              after  == BitXor(before, mask)
          IN /\ mut' = [pos |-> pos, old |-> before, new |-> after]
             /\ res' = [res EXCEPT !.frame.buf = Put(res.frame.buf, pos, after)]
    /\ pc' = "mutated"
    /\ UNCHANGED <<val, window, args, raw>>
    /\ UNCHANGED parserVars

\* checksum validation of the frame's bytes
Validate ==
    /\ pc \in {"framed", "mutated"}
    /\ res.status = "Ok"
    /\ res' = [status |-> CheckFrame(AsSlice(res.frame)), frame |-> res.frame]
    /\ pc' = "validated"
    /\ UNCHANGED <<val, window, args, raw, mut>>
    /\ UNCHANGED parserVars

\* the transport hands the bytes of its next read to push
Push ==
    /\ fed < Len(stream)
    /\ LET k == IF Len(stream) - fed < ReadLen THEN Len(stream) - fed ELSE ReadLen
          r == ParserPush(buffer, base, SubSeq(stream, fed + 1, fed + k))
       IN /\ buffer' = r.buffer
          /\ base' = r.base
          /\ overflowed' = (overflowed \/ r.overflow)
          /\ fed' = fed + k
    /\ last' = NoOutcome
    /\ UNCHANGED <<stream, log>>
    /\ UNCHANGED codecVars

\* the caller asks for the next frame
Next ==
    /\ LET r == ParserNext(buffer, base)
       IN /\ buffer' = r.buffer
          /\ base' = r.base
          /\ last' = r.out
          /\ log' = IF r.out.kind = "None" THEN log ELSE Append(log, r.out)
    /\ UNCHANGED <<stream, fed, overflowed>>
    /\ UNCHANGED codecVars

StartWith(values) ==
    /\ pc = "start"
    /\ val \in values
    /\ window = <<>>
    /\ args = NoArgs
    /\ res = NoRes
    /\ raw = NoFrame
    /\ mut = NoMut
    /\ ParserIdle

\* the channel bit-packer on its own and through a frame
InitPack == StartWith(PackValues)

NextPack == RcEncodeRaw \/ RcDecodeRaw \/ ToRawPacket \/ DecodePayload

SpecPack == InitPack /\ [][NextPack]_vars

\* decode / encode of every payload over caller windows
InitPayload == StartWith(PayloadValues)

NextPayload == EncodeWindow \/ DecodeEncoded \/ DecodeWindow

SpecPayload == InitPayload /\ [][NextPayload]_vars

\* frame construction, single-byte changes and validation
InitFrame == StartWith(PayloadValues)

NextFrame == ToRawPacket \/ ExtToRawPacket \/ MutateByte \/ Validate

SpecFrame == InitFrame /\ [][NextFrame]_vars

InitParser ==
    /\ pc = "parser"
    /\ val = NoValue
    /\ window = <<>>
    /\ args = NoArgs
    /\ res = NoRes
    /\ raw = NoFrame
    /\ mut = NoMut
    /\ stream \in Streams
    /\ fed = 0
    /\ buffer = <<>>
    /\ base = 0
    /\ overflowed = FALSE
    /\ log = <<>>
    /\ last = NoOutcome

NextParser == Push \/ Next

SpecParser == InitParser /\ [][NextParser]_vars

(***************************************************************************)
(* Properties.                                                             *)
(***************************************************************************)
Mutated == mut.pos >= 0

\* C1: channel packing round trip. For 16 channel values, each in 0..2047,
\* raw_decode(raw_encode(values)) is exactly the values, slot by slot, and so
\* is RcChannelsPacked::decode of the payload bytes of the frame that
\* to_raw_packet builds from them.
C1_PackRoundTrip ==
    (pc \in {"raw_decoded", "frame_decoded"} /\ InRange(val.ch))
        => (res.status = "Ok" /\ res.value.ch = val.ch)

\* C1 witness: through a frame, with 2047, 0, 2047 in adjacent slots, whose
\* bits meet inside bytes 1 and 2 of the payload
C1_Witness ==
    /\ pc = "frame_decoded"
    /\ val.ch[1] = 2047 /\ val.ch[2] = 0 /\ val.ch[3] = 2047
    /\ res.status = "Ok"
    /\ res.value.ch = val.ch

\* C2: simple framing. A successful Payload::to_raw_packet_with_sync(sync) of
\* a LinkStatistics or RcChannelsPacked value returns a frame with byte 0 the
\* sync byte, byte 1 LEN + 2, byte 2 the type tag, bytes 3 .. 3+LEN-1 the
\* encoded payload, byte 3+LEN the checksum over bytes 2 .. 3+LEN-1, and a
\* logical length 4 + LEN = 2 + length byte that is within CRSF_MAX_LEN.
C2_SimpleFraming ==
    (pc = "framed" /\ val.kind \in SimpleKinds /\ res.status = "Ok") =>
        LET f == res.frame
            n == LEN(val.kind)
        IN /\ At(f.buf, 0) = args.sync
           /\ At(f.buf, 1) = n + 2
           /\ At(f.buf, 2) = PacketType(val.kind)
           /\ Slice(f.buf, 3, 3 + n) = RawEncode(val, Zeros(n))
           /\ At(f.buf, 3 + n) = Crc8(Slice(f.buf, 2, 3 + n))
           /\ f.len = 4 + n
           /\ f.len = 2 + At(f.buf, 1)
           /\ f.len <= CRSF_MAX_LEN

\* C2 witness: a packed-channels frame built with a non-default sync byte
C2_Witness ==
    /\ pc = "framed"
    /\ val.kind = "RcChannelsPacked"
    /\ val.ch = TestChannels
    /\ args.sync # CRSF_SYNC_BYTE
    /\ res.status = "Ok"
    /\ res.frame.len = 26

\* C3: extended framing. A successful ExtendedPayload::to_raw_packet_with_sync
\* (sync, dst, src) of a DevicePing, DeviceInfo or ParameterRead value returns
\* a frame with byte 0 the sync byte, byte 1 LEN + 4, byte 2 the type tag,
\* byte 3 dst, byte 4 src, bytes 5 .. 5+LEN-1 the encoded payload, byte 5+LEN
\* the checksum over bytes 2 .. 5+LEN-1, and a logical length 6 + LEN =
\* 2 + length byte that is within CRSF_MAX_LEN.
C3_ExtendedFraming ==
    (pc = "framed" /\ val.kind \in ExtendedKinds /\ res.status = "Ok") =>
        LET f == res.frame
            n == LEN(val.kind)
        IN /\ At(f.buf, 0) = args.sync
           /\ At(f.buf, 1) = n + 4
           /\ At(f.buf, 2) = PacketType(val.kind)
           /\ At(f.buf, 3) = args.dst
           /\ At(f.buf, 4) = args.src
           /\ Slice(f.buf, 5, 5 + n) = RawEncode(val, Zeros(n))
           /\ At(f.buf, 5 + n) = Crc8(Slice(f.buf, 2, 5 + n))
           /\ f.len = 6 + n
           /\ f.len = 2 + At(f.buf, 1)
           /\ f.len <= CRSF_MAX_LEN

\* C3 witness: the largest payload, DeviceInfo, fills the whole buffer
C3_Witness ==
    /\ pc = "framed"
    /\ val.kind = "DeviceInfo"
    /\ args.dst = 234 /\ args.src = 238
    /\ res.status = "Ok"
    /\ res.frame.len = CRSF_MAX_LEN

\* C4 as claimed: changing any single byte of a valid frame other than the
\* trailing checksum byte makes checksum validation fail with
\* ChecksumMismatch.
C4_AnyByteChangeDetected ==
    (pc = "validated" /\ Mutated /\ mut.pos < res.frame.len - 1)
        => res.status = "ChecksumMismatch"

\* C4 as amended: changing any single byte in the checksum's covered range
\* (the type byte, the address bytes of an extended frame, a payload byte)
\* makes checksum validation fail with ChecksumMismatch.
C4_CoveredByteChangeDetected ==
    (pc = "validated" /\ Mutated /\ mut.pos >= 2 /\ mut.pos < res.frame.len - 1)
        => res.status = "ChecksumMismatch"

\* C4 witness: the destination address of an extended frame was changed and
\* validation failed
C4_Witness ==
    /\ pc = "validated"
    /\ val.kind = "ParameterRead"
    /\ mut.pos = 3
    /\ mut.new # mut.old
    /\ res.status = "ChecksumMismatch"

\* C5 as claimed: for every value v of every payload variant,
\* decode(encode(v)) succeeds and equals v.
C5_PayloadRoundTrip ==
    pc = "decoded" => (res.status = "Ok" /\ res.value = val)

\* C6: a window shorter than the payload's fixed length, the empty window
\* included, makes decode return BufferError, and makes encode return
\* BufferError with no byte of the window written.
C6_ShortWindowRejected ==
    /\ (pc = "decoded_window" /\ Len(window) < LEN(val.kind))
          => res.status = "BufferError"
    /\ (pc = "encoded" /\ Len(window) < LEN(val.kind))
          => (res.status = "BufferError" /\ res.buf = window)

\* C6 witness: decode of a 57-byte window as a DeviceInfo
C6_Witness ==
    /\ pc = "decoded_window"
    /\ val.kind = "DeviceInfo"
    /\ Len(window) = DeviceInfoLEN - 1
    /\ At(window, 0) # 0
    /\ res.status = "BufferError"

\* C7 as claimed: decode of a window of at least the fixed length, whatever
\* its content, returns a value or an error and never panics.
C7_DecodeNeverPanics ==
    (pc = "decoded_window" /\ Len(window) >= LEN(val.kind))
        => res.status # "Panic"

\* C8: when the payload's encode fails, the frame constructor returns that
\* error, hands no frame to the caller, and has written neither the header
\* nor the checksum into its buffer.
C8_FailedEncodeAborts ==
    (pc = "framed" /\ res.status # "Ok") =>
        /\ res.status = "BufferError"
        /\ res.frame = NoFrame
        /\ raw.buf = Zeros(CRSF_MAX_LEN)

\* C8 witness: the extended constructor on a payload whose encode fails
C8_Witness ==
    /\ pc = "framed"
    /\ val.kind = "Oversize"
    /\ args.dst = 236
    /\ res.status = "BufferError"
    /\ res.frame = NoFrame

\* C10 as claimed: for 16 arbitrary u16 channel values,
\* raw_decode(raw_encode(values))[i] = values[i] mod 2048 in every slot i.
C10_TruncatedPerSlot ==
    pc = "raw_decoded" =>
        \A i \in 1..16 : res.value.ch[i] = val.ch[i] % 2048

\* What the bytes pushed so far hold at stream position p: "Noise" (not a
\* sync byte), or the verdict on the candidate that starts there.
StatusAt(p) ==
    IF stream[p + 1] # CRSF_SYNC_BYTE THEN "Noise"
    ELSE CheckFrame(SubSeq(stream, p + 1, fed))

Logged(kind, p) == \E i \in 1..Len(log) : log[i].kind = kind /\ log[i].pos = p

\* p lies inside the span of a candidate at p0 that failed its checksum
InsideCorrupted(p0, p) ==
    /\ Logged("ChecksumMismatch", p0)
    /\ p0 < p
    /\ p < p0 + 2 + stream[p0 + 2]

\* a candidate between p0 and p that passes its checksum or is not yet
\* fully buffered
Blocked(p0, p) ==
    \E q \in (p0 + 1)..(p - 1) : StatusAt(q) \in {"Ok", "Incomplete"}

\* after a checksum mismatch exactly the candidate's sync byte is gone
DiscardsSyncOnly ==
    last.kind = "ChecksumMismatch" =>
        /\ base = last.pos + 1
        /\ buffer = SubSeq(stream, base + 1, fed)

\* outcomes come in the order of their sync bytes, no frame twice
EmittedInOrder ==
    \A i, j \in 1..Len(log) :
        i < j => /\ log[i].pos < log[j].pos
                 /\ log[i].kind = "Frame" => log[i].pos + log[i].len <= log[j].pos

====
